---- MODULE Spec2Model ----
(***************************************************************************)
(* A model of the SDK's bulk-ingestion run (sandbox_omf.py,                *)
(* use_case_2_create_attributes_and_data_omf), of the marker-based change  *)
(* feed (controllers/stream.py), of the create-or-get hierarchy helper     *)
(* (sandbox_omf.py, create_or_get_element), of the type declarations and   *)
(* the registry that answers them, of the time formatting of the           *)
(* controllers (controllers/base.py, _format_time), of the request that a  *)
(* retrieve hands to the transport, and of EventFrame.to_dict / from_dict  *)
(* (models/event.py).                                                      *)
(***************************************************************************)
EXTENDS Integers, Sequences, FiniteSets, TLC

(***************************************************************************)
(* Bounds of the model.                                                    *)
(***************************************************************************)
\* largest number of value records generated per container
MaxPoints == 5
\* largest batch size tried
MaxBatch == 3
\* number of containers of containers_def that the run declares
MaxContainers == 2
\* largest number of values written to the streams
MaxWrites == 2
\* largest number of registrations the service holds
MaxRegs == 1
\* largest number of create_or_get_element calls of one caller
MaxCalls == 1

VARIABLES
    \* ---- use_case_2_create_attributes_and_data_omf ----
    uc2_pc,             \* position in the function
    type_ids,           \* the types the OMF endpoint has accepted
    container_ids,      \* the dict container_ids, in insertion order
    num_points,         \* len(values) of every container
    batch_size,
    cur,                \* index in container_ids of the container being written
    batch_idx,          \* the loop variable of range(0, len(values), batch_size)
    write_error,
    successful_writes,
    failed_writes,
    omf_msgs,           \* every OMF message handed to the transport, in order
    out_log,            \* what the function prints about batches and containers
    \* ---- the change feed ----
    regs,               \* the service's registrations, by registration number
    wcount,             \* how many values have been written so far
    cursor,             \* the consumer's current marker of each registration
    got,                \* the non-empty batches delivered for each registration
    resp,               \* the consumer's last call and what it returned
    \* ---- create_or_get_element ----
    nodes,              \* the children of the parent element, in creation order
    ens,                \* each caller's position in create_or_get_element
    overlap,            \* the callers' latest calls ran concurrently, same name
    \* ---- the type registry behind omf_manager.create_type ----
    registry,           \* the definition registered under each type id
    decl,               \* the last declaration and what it returned
    \* ---- BaseController._format_time ----
    time_value,         \* the argument of the call
    formatted,          \* what the call returned or raised
    \* ---- one retrieve call seen at the transport ----
    rq_args,            \* the arguments of the retrieve call
    rq_seen,            \* the request issued, its response, what was returned
    \* ---- EventFrame.to_dict / EventFrame.from_dict ----
    ef_pc,              \* "new", "dumped" (to_dict ran), "loaded" (from_dict ran)
    ef,                 \* the event frame e, field by field
    exclude_none,       \* the argument of to_dict
    ef_dict,            \* e.to_dict(exclude_none)
    ef_back             \* EventFrame.from_dict(ef_dict), field by field

feedVars == <<regs, wcount, cursor, got, resp>>

ensureVars == <<nodes, ens, overlap>>

registryVars == <<registry, decl>>

codecVars == <<time_value, formatted>>

requestVars == <<rq_args, rq_seen>>

eventVars == <<ef_pc, ef, exclude_none, ef_dict, ef_back>>

\* what the ingestion run leaves alone
notSendVars == <<feedVars, ensureVars, registryVars, codecVars,
    requestVars, eventVars>>

sendVars == <<uc2_pc, type_ids, container_ids, num_points, batch_size, cur,
              batch_idx, write_error, successful_writes, failed_writes,
              omf_msgs, out_log>>

\* what the change feed leaves alone
notFeedVars == <<sendVars, ensureVars, registryVars, codecVars,
    requestVars, eventVars>>

\* what create_or_get_element leaves alone
notEnsureVars == <<sendVars, feedVars, registryVars, codecVars,
    requestVars, eventVars>>

\* what the type registry leaves alone
notRegistryVars == <<sendVars, feedVars, ensureVars, codecVars,
    requestVars, eventVars>>

\* what _format_time leaves alone
notCodecVars == <<sendVars, feedVars, ensureVars, registryVars, requestVars,
                 eventVars>>

\* what a retrieve call leaves alone
notRequestVars == <<sendVars, feedVars, ensureVars, registryVars, codecVars,
                   eventVars>>

\* what to_dict and from_dict leave alone
notEventVars == <<sendVars, feedVars, ensureVars, registryVars, codecVars,
                 requestVars>>

vars == <<sendVars, feedVars, ensureVars, registryVars, codecVars,
          requestVars, eventVars>>

Min(a, b) == IF a <= b THEN a ELSE b

Range(s) == {s[i] : i \in 1..Len(s)}

(***************************************************************************)
(* use_case_2_create_attributes_and_data_omf                               *)
(***************************************************************************)

\* the messages of PIWebAPIError that the transport raises
Errors == {"HTTP 400", "HTTP 503"}

\* the keys of containers_def, in the order of the dict literal
containers_def ==
    SubSeq(<<"sine1", "sine2", "sine3", "square1", "square2", "square3">>,
           1, MaxContainers)

sensor_type == "IndyIQ_SensorDataType"

\* values: one record per point; record i carries the timestamp
\* start_time + i * interval_seconds, so the records are pairwise different
\* and are named here by their 1-based position
Values(n) == [i \in 1..n |-> i]

\* a count of the full batches only
TotalBatchesFloor(n, bs) == n \div bs

\* total_batches = (len(values) + batch_size - 1) // batch_size
TotalBatches(n, bs) == (n + bs - 1) \div bs

\* a slice that runs one record into the next batch
BatchValuesOneMore(values, idx, bs) ==
    SubSeq(values, idx + 1, Min(idx + bs + 1, Len(values)))

\* batch_values = values[batch_idx:batch_idx + batch_size]
BatchValues(values, idx, bs) ==
    SubSeq(values, idx + 1, Min(idx + bs, Len(values)))

\* a batch number that counts from 0
BatchNumZeroBased(idx, bs) == idx \div bs

\* batch_num = batch_idx // batch_size + 1
BatchNum(idx, bs) == (idx \div bs) + 1

\* the record of one data message handed to send_time_series_data
\* and its outcome: "ok", or the message of the PIWebAPIError raised
DataMsg(c, idx, vals, res) ==
    [kind |-> "data", container |-> c, idx |-> idx, values |-> vals,
     result |-> res]

SendInit ==
    /\ uc2_pc = "create_type"
    /\ type_ids = {}
    /\ container_ids = <<>>
    /\ num_points \in 0..MaxPoints
    /\ batch_size \in 1..MaxBatch
    /\ cur = 0
    /\ batch_idx = 0
    /\ write_error = FALSE
    /\ successful_writes = 0
    /\ failed_writes = 0
    /\ omf_msgs = <<>>
    /\ out_log = <<>>

\* a declaration of the type whose error is ignored
CreateTypeIgnoreError ==
    /\ uc2_pc = "create_type"
    /\ \E ok \in BOOLEAN :
        /\ omf_msgs' = Append(omf_msgs, [kind |-> "type", id |-> sensor_type,
                                          ok |-> ok])
        /\ type_ids' = IF ok THEN type_ids \cup {sensor_type} ELSE type_ids
        /\ uc2_pc' = "create_containers"
    /\ UNCHANGED <<container_ids, num_points, batch_size, cur, batch_idx,
                   write_error, successful_writes, failed_writes, out_log>>
    /\ UNCHANGED notSendVars

\* omf_manager.create_type(sensor_type); a PIWebAPIError ends the run
\* through the outer except clause (SystemExit)
CreateType ==
    /\ uc2_pc = "create_type"
    /\ \E ok \in BOOLEAN :
        /\ omf_msgs' = Append(omf_msgs, [kind |-> "type", id |-> sensor_type,
                                          ok |-> ok])
        /\ IF ok
           THEN /\ type_ids' = type_ids \cup {sensor_type}
                /\ uc2_pc' = "create_containers"
           ELSE /\ type_ids' = type_ids
                /\ uc2_pc' = "exit"
    /\ UNCHANGED <<container_ids, num_points, batch_size, cur, batch_idx,
                   write_error, successful_writes, failed_writes, out_log>>
    /\ UNCHANGED notSendVars

\* an iteration that, when the declaration fails, leaves the container out
\* and goes on with the next one
CreateContainerSkip ==
    /\ uc2_pc = "create_containers"
    /\ Len(container_ids) < Len(containers_def)
    /\ \E c \in Range(containers_def) \ Range(container_ids), ok \in BOOLEAN :
        /\ omf_msgs' = Append(omf_msgs, [kind |-> "container", id |-> c,
                                          type_id |-> sensor_type, ok |-> ok])
        /\ container_ids' = IF ok THEN Append(container_ids, c)
                            ELSE container_ids
        /\ uc2_pc' = "create_containers"
    /\ UNCHANGED <<type_ids, num_points, batch_size, cur, batch_idx,
                   write_error, successful_writes, failed_writes, out_log>>
    /\ UNCHANGED notSendVars

\* one iteration of "for container_name, description in containers_def.items()"
CreateContainer ==
    /\ uc2_pc = "create_containers"
    /\ Len(container_ids) < Len(containers_def)
    /\ LET c == containers_def[Len(container_ids) + 1] IN
       \E ok \in BOOLEAN :
        /\ omf_msgs' = Append(omf_msgs, [kind |-> "container", id |-> c,
                                          type_id |-> sensor_type, ok |-> ok])
        /\ IF ok
           THEN /\ container_ids' = Append(container_ids, c)
                /\ uc2_pc' = "create_containers"
           ELSE /\ container_ids' = container_ids
                /\ uc2_pc' = "exit"
    /\ UNCHANGED <<type_ids, num_points, batch_size, cur, batch_idx,
                   write_error, successful_writes, failed_writes, out_log>>
    /\ UNCHANGED notSendVars

\* an end of a container's batch loop that counts a failed container as
\* written as well
CountContainerTwice(c, failed, log) ==
    /\ write_error' = IF cur < Len(container_ids) THEN FALSE ELSE failed
    /\ batch_idx' = 0
    /\ successful_writes' = successful_writes + 1
    /\ IF failed
       THEN /\ failed_writes' = failed_writes + 1
            /\ out_log' = Append(log, [kind |-> "failed", container |-> c])
       ELSE /\ failed_writes' = failed_writes
            /\ out_log' = Append(log, [kind |-> "completed", container |-> c])
    /\ IF cur < Len(container_ids)
       THEN /\ cur' = cur + 1
            /\ uc2_pc' = "send"
       ELSE /\ cur' = cur
            /\ uc2_pc' = "summary"

\* an end of a container's batch loop that leaves the run at a failure
CountContainerAbort(c, failed, log) ==
    /\ write_error' = failed
    /\ batch_idx' = 0
    /\ IF failed
       THEN /\ failed_writes' = failed_writes + 1
            /\ successful_writes' = successful_writes
            /\ out_log' = Append(log, [kind |-> "failed", container |-> c])
            /\ cur' = cur
            /\ uc2_pc' = "exit"
       ELSE /\ successful_writes' = successful_writes + 1
            /\ failed_writes' = failed_writes
            /\ out_log' = Append(log, [kind |-> "completed", container |-> c])
            /\ IF cur < Len(container_ids)
               THEN /\ cur' = cur + 1
                    /\ uc2_pc' = "send"
               ELSE /\ cur' = cur
                    /\ uc2_pc' = "summary"

\* the end of a container's batch loop: count the container and go on to the
\* next one of container_ids, or to the summary after the last
CountContainer(c, failed, log) ==
    /\ write_error' = IF cur < Len(container_ids) THEN FALSE ELSE failed
    /\ batch_idx' = 0
    /\ IF failed
       THEN /\ failed_writes' = failed_writes + 1
            /\ successful_writes' = successful_writes
            /\ out_log' = Append(log, [kind |-> "failed", container |-> c])
       ELSE /\ successful_writes' = successful_writes + 1
            /\ failed_writes' = failed_writes
            /\ out_log' = Append(log, [kind |-> "completed", container |-> c])
    /\ IF cur < Len(container_ids)
       THEN /\ cur' = cur + 1
            /\ uc2_pc' = "send"
       ELSE /\ cur' = cur
            /\ uc2_pc' = "summary"

\* the containers are all declared: successful_writes = failed_writes = 0 and
\* the loop over container_ids.items() starts
StartData ==
    /\ uc2_pc = "create_containers"
    /\ Len(container_ids) = Len(containers_def)
    /\ successful_writes' = 0
    /\ failed_writes' = 0
    /\ IF Len(container_ids) > 0
       THEN /\ cur' = 1
            /\ uc2_pc' = "send"
       ELSE /\ cur' = 0
            /\ uc2_pc' = "summary"
    /\ UNCHANGED <<type_ids, container_ids, num_points, batch_size, batch_idx,
                   write_error, omf_msgs, out_log>>
    /\ UNCHANGED notSendVars

\* range(0, len(values), batch_size) is empty: the loop body never runs
SendNothing ==
    /\ uc2_pc = "send"
    /\ num_points = 0
    /\ CountContainer(container_ids[cur], write_error, out_log)
    /\ UNCHANGED <<type_ids, container_ids, num_points, batch_size, omf_msgs>>
    /\ UNCHANGED notSendVars

\* One pass of the body of "for batch_idx in range(0, len(values), batch_size)"
\* in which send_time_series_data returned: the optional progress line, then
\* the next batch_idx of the range or the end of the loop
SendSucceeded(c) ==
    LET bn   == BatchNum(batch_idx, batch_size)
        tb   == TotalBatches(num_points, batch_size)
        log1 == IF bn % 2 = 0 \/ bn = tb
                THEN Append(out_log, [kind |-> "batch_complete", container |-> c,
                                      batch_num |-> bn, total |-> tb])
                ELSE out_log
        next == batch_idx + batch_size
    IN  /\ omf_msgs' = Append(omf_msgs,
              DataMsg(c, batch_idx,
                      BatchValues(Values(num_points), batch_idx, batch_size), "ok"))
        /\ IF next < num_points
           THEN /\ batch_idx' = next
                /\ out_log' = log1
                /\ UNCHANGED <<uc2_pc, cur, write_error, successful_writes,
                               failed_writes>>
           ELSE CountContainer(c, write_error, log1)

\* a variant that logs the error and goes on with the next batch
SendFailedNoBreak(c, exc) ==
    LET bn   == BatchNum(batch_idx, batch_size)
        log1 == Append(out_log, [kind |-> "error", container |-> c,
                                 batch_num |-> bn, message |-> exc])
        next == batch_idx + batch_size
    IN  /\ omf_msgs' = Append(omf_msgs,
              DataMsg(c, batch_idx,
                      BatchValues(Values(num_points), batch_idx, batch_size), exc))
        /\ IF next < num_points
           THEN /\ batch_idx' = next
                /\ out_log' = log1
                /\ write_error' = TRUE
                /\ UNCHANGED <<uc2_pc, cur, successful_writes, failed_writes>>
           ELSE CountContainer(c, TRUE, log1)

\* One pass of the loop body in which send_time_series_data raised
\* PIWebAPIError: the error line, write_error = True, break
SendFailed(c, exc) ==
    LET bn   == BatchNum(batch_idx, batch_size)
        log1 == Append(out_log, [kind |-> "error", container |-> c,
                                 batch_num |-> bn, message |-> exc])
    IN  /\ omf_msgs' = Append(omf_msgs,
              DataMsg(c, batch_idx,
                      BatchValues(Values(num_points), batch_idx, batch_size), exc))
        /\ CountContainer(c, TRUE, log1)

SendBatch ==
    /\ uc2_pc = "send"
    /\ batch_idx < num_points
    /\ \/ SendSucceeded(container_ids[cur])
       \/ \E exc \in Errors : SendFailed(container_ids[cur], exc)
    /\ UNCHANGED <<type_ids, container_ids, num_points, batch_size>>
    /\ UNCHANGED notSendVars

\* print("Data write summary: ..."), then return container_ids
Summary ==
    /\ uc2_pc = "summary"
    /\ out_log' = Append(out_log, [kind |-> "summary",
                                   successful |-> successful_writes,
                                   failed |-> failed_writes])
    /\ uc2_pc' = "done"
    /\ UNCHANGED <<type_ids, container_ids, num_points, batch_size, cur,
                   batch_idx, write_error, successful_writes, failed_writes,
                   omf_msgs>>
    /\ UNCHANGED notSendVars

SendNext ==
    \/ CreateType
    \/ CreateContainer
    \/ StartData
    \/ SendNothing
    \/ SendBatch
    \/ Summary


(***************************************************************************)
(* Properties of the batch loop.                                           *)
(***************************************************************************)

RECURSIVE Flatten(_)
Flatten(ss) == IF ss = <<>> THEN <<>> ELSE Head(ss) \o Flatten(Tail(ss))

RECURSIVE SumLen(_)
SumLen(ss) == IF ss = <<>> THEN 0 ELSE Len(Head(ss)) + SumLen(Tail(ss))

\* the data messages sent for container c, in send order
MsgsOf(c) ==
    SelectSeq(omf_msgs, LAMBDA m : m.kind = "data" /\ m.container = c)

ChunksOf(c) == [i \in 1..Len(MsgsOf(c)) |-> MsgsOf(c)[i].values]

ChunkSizes(c) == [i \in 1..Len(MsgsOf(c)) |-> Len(MsgsOf(c)[i].values)]

\* the chunks of c that the transport accepted
DeliveredOf(c) ==
    LET ok == SelectSeq(MsgsOf(c), LAMBDA m : m.result = "ok")
    IN  [i \in 1..Len(ok) |-> ok[i].values]

LinesOf(c, kind) ==
    SelectSeq(out_log, LAMBDA l : l.kind = kind /\ l.container = c)

\* the batch loop of c has ended
Finished(c) == LinesOf(c, "failed") # <<>> \/ LinesOf(c, "completed") # <<>>

\* the 0-based indices of the chunks of c whose send failed
FailedChunks(c) ==
    {i - 1 : i \in {j \in 1..Len(MsgsOf(c)) : MsgsOf(c)[j].result # "ok"}}

\* C1: the chunks sent to a container are contiguous slices of at most
\* batch_size records, sent in increasing index order; their concatenation in
\* send order is the input sequence up to the last record sent, and is the
\* whole input sequence once the loop has run to its end without a failure.
C1_ChunksPartitionInput ==
    \A c \in Range(containers_def) :
        LET ms == MsgsOf(c)
            ch == ChunksOf(c)
        IN  /\ \A i \in 1..Len(ms) :
                /\ Len(ch[i]) >= 1
                /\ Len(ch[i]) <= batch_size
                /\ ms[i].idx = (i - 1) * batch_size
                /\ ch[i] = SubSeq(Values(num_points), ms[i].idx + 1,
                                  ms[i].idx + Len(ch[i]))
            /\ Flatten(ch) = SubSeq(Values(num_points), 1, SumLen(ch))
            /\ (LinesOf(c, "completed") # <<>> => Flatten(ch) = Values(num_points))

\* 5 records with batch_size 2 were sent as chunks of sizes 2, 2, 1
C1_Witness ==
    /\ num_points = 5
    /\ batch_size = 2
    /\ \E c \in Range(containers_def) :
        /\ LinesOf(c, "completed") # <<>>
        /\ ChunkSizes(c) = <<2, 2, 1>>

\* C2: a failed chunk is the last chunk sent for its container, and the
\* delivered chunks of a container are the chunks 0..j-1 of its chunk sequence.
C2_StopAfterFailure ==
    \A c \in Range(containers_def) :
        LET ms == MsgsOf(c)
        IN  /\ \A i \in 1..Len(ms) : ms[i].result # "ok" => i = Len(ms)
            /\ \A i \in 1..Len(ms) :
                ms[i].result = "ok" =>
                    \A j \in 1..i : ms[j].result = "ok" /\ ms[j].idx = (j - 1) * batch_size

\* the run has ended, and a container's chunk failed while chunks after it
\* were still unsent
C2_Witness ==
    /\ uc2_pc = "done"
    /\ \E c \in Range(containers_def) :
        /\ FailedChunks(c) # {}
        /\ \E k \in FailedChunks(c) :
            k + 1 < TotalBatches(num_points, batch_size)

None == "<None>"

\* the stream identities the service knows, and one it does not know
Streams == {"s1", "s2"}
UnknownStream == "s9"

\* A marker is an opaque token issued by the service; the service's tokens
\* name a registration and a position in its change log.
Marker(r, p) == [reg |-> r, pos |-> p]
\* no marker (a response without LatestMarker)
NoMarker == Marker(-1, -1)
\* a token the service never issued
BogusMarker == Marker(0, 0)

\* path segments: literal text, or a marker interpolated into the path
Seg(s) == [lit |-> s, mk |-> NoMarker]
MkSeg(m) == [lit |-> "", mk |-> m]

\* a test that takes the empty string for a value
NotNone(v) == v # None

\* "if selected_fields:" / "if desired_units:"
Truthy(v) == v # None /\ v # ""

\* params with its optional entries; an entry that is not set is None, an
\* unset webId list is empty and an unset marker is NoMarker
Params(web_ids, marker, selected_fields, desired_units) ==
    [webId          |-> web_ids,
     marker         |-> marker,
     selectedFields |-> IF Truthy(selected_fields) THEN selected_fields ELSE None,
     desiredUnits   |-> IF Truthy(desired_units) THEN desired_units ELSE None]

Request(method, path, params) ==
    [method |-> method, path |-> path, params |-> params]

\* client.post(f"streams/{web_id}/updates", params=params)
register_update_request(web_id, selected_fields) ==
    Request("POST", <<Seg("streams"), Seg(web_id), Seg("updates")>>,
            Params({}, NoMarker, selected_fields, None))

\* a request that carries the marker as a query parameter
retrieve_update_request_in_query(marker, selected_fields, desired_units) ==
    Request("GET", <<Seg("streams"), Seg("updates")>>,
            Params({}, marker, selected_fields, desired_units))

\* client.get(f"streams/updates/{marker}", params=params)
retrieve_update_request(marker, selected_fields, desired_units) ==
    Request("GET", <<Seg("streams"), Seg("updates"), MkSeg(marker)>>,
            Params({}, NoMarker, selected_fields, desired_units))

\* a request without the webId parameter
register_updates_request_no_ids(web_ids, selected_fields) ==
    Request("POST", <<Seg("streamsets"), Seg("updates")>>,
            Params({}, NoMarker, selected_fields, None))

\* client.post("streamsets/updates", params={"webId": web_ids, ...})
register_updates_request(web_ids, selected_fields) ==
    Request("POST", <<Seg("streamsets"), Seg("updates")>>,
            Params(web_ids, NoMarker, selected_fields, None))

\* a request that carries the marker as the last segment of the path
retrieve_updates_request_in_path(marker, selected_fields, desired_units) ==
    Request("GET", <<Seg("streamsets"), Seg("updates"), MkSeg(marker)>>,
            Params({}, NoMarker, selected_fields, desired_units))

\* client.get("streamsets/updates", params={"marker": marker, ...})
retrieve_updates_request(marker, selected_fields, desired_units) ==
    Request("GET", <<Seg("streamsets"), Seg("updates")>>,
            Params({}, marker, selected_fields, desired_units))

\* ---- the service and the transport (not in the controllers) ----

Failure(status) == [status |-> status, Items |-> <<>>, LatestMarker |-> NoMarker]

Success(items, marker) == [status |-> "ok", Items |-> items, LatestMarker |-> marker]

\* what a transport call gives back: the response (or the error raised), the
\* service's registrations after it, and the number of requests issued
Result(out, rs, n) == [out |-> out, regs |-> rs, n |-> n]

\* register: a subscription window that starts now, for a stream or a set of
\* streams; InvalidArgument for an empty set, NotFound for an unknown identity
ServiceRegister(kind, ids, rs) ==
    IF ids = {} THEN Result(Failure("InvalidArgument"), rs, 1)
    ELSE IF ~(ids \subseteq Streams) THEN Result(Failure("NotFound"), rs, 1)
    ELSE Result(Success(<<>>, Marker(Len(rs) + 1, 0)),
                Append(rs, [kind |-> kind, streams |-> ids, log |-> <<>>,
                            latest |-> 0]),
                1)

\* retrieve: the marker must be the most recently returned one of its
\* registration (InvalidState otherwise); the batch is what the change log
\* holds after the marker, the next marker covers the whole log
ServiceRetrieve(kind, m, rs) ==
    IF /\ m.reg \in 1..Len(rs)
       /\ rs[m.reg].kind = kind
       /\ m.pos = rs[m.reg].latest
    THEN LET log == rs[m.reg].log
         IN  Result(Success(SubSeq(log, m.pos + 1, Len(log)),
                            Marker(m.reg, Len(log))),
                    [rs EXCEPT ![m.reg].latest = Len(log)],
                    1)
    ELSE Result(Failure("InvalidState"), rs, 1)

\* the service's routes
ServiceHandle(req, rs) ==
    LET p == req.path
    IN  IF req.method = "POST" /\ Len(p) = 3 /\ p[1] = Seg("streams")
           /\ p[3] = Seg("updates")
        THEN ServiceRegister("stream", {p[2].lit}, rs)
        ELSE IF req.method = "POST" /\ p = <<Seg("streamsets"), Seg("updates")>>
        THEN ServiceRegister("streamset", req.params.webId, rs)
        ELSE IF req.method = "GET" /\ Len(p) = 3 /\ p[1] = Seg("streams")
                /\ p[2] = Seg("updates")
        THEN ServiceRetrieve("stream", p[3].mk, rs)
        ELSE IF req.method = "GET" /\ p = <<Seg("streamsets"), Seg("updates")>>
        THEN ServiceRetrieve("streamset", req.params.marker, rs)
        ELSE Result(Failure("NotFound"), rs, 1)

\* client.get / client.post: one round trip; a transport failure raises and
\* leaves the service as it was
client_request(req, rs, fail) ==
    IF fail THEN Result(Failure("TransportFailure"), rs, 1)
    ELSE ServiceHandle(req, rs)

\* ---- the controllers ----

\* a register that, when its request fails, issues the request once more
register_update_again(web_id, selected_fields, rs, fail) ==
    LET r == client_request(register_update_request(web_id, selected_fields),
                            rs, fail)
    IN  IF r.out.status = "ok" THEN r
        ELSE LET r2 == client_request(
                           register_update_request(web_id, selected_fields),
                           r.regs, fail)
             IN  Result(r2.out, r2.regs, 2)

\* StreamController.register_update
register_update(web_id, selected_fields, rs, fail) ==
    client_request(register_update_request(web_id, selected_fields), rs, fail)

\* a retrieve that, told that its marker is not valid, asks again with the
\* registration's latest marker
retrieve_update_retry(marker, selected_fields, desired_units, rs, fail) ==
    LET r == client_request(
                 retrieve_update_request(marker, selected_fields, desired_units),
                 rs, fail)
    IN  IF r.out.status = "InvalidState" /\ marker.reg \in 1..Len(rs)
        THEN LET r2 == client_request(
                          retrieve_update_request(
                              Marker(marker.reg, rs[marker.reg].latest),
                              selected_fields, desired_units),
                          rs, fail)
             IN  Result(r2.out, r2.regs, 2)
        ELSE r

\* a retrieve that, when the call fails, returns an empty response instead
\* of raising
retrieve_update_swallow(marker, selected_fields, desired_units, rs, fail) ==
    LET r == client_request(
                 retrieve_update_request(marker, selected_fields, desired_units),
                 rs, fail)
    IN  IF r.out.status = "ok" THEN r
        ELSE Result(Success(<<>>, NoMarker), r.regs, r.n)

\* StreamController.retrieve_update
retrieve_update(marker, selected_fields, desired_units, rs, fail) ==
    client_request(retrieve_update_request(marker, selected_fields, desired_units),
                   rs, fail)

\* StreamSetController.register_updates
register_updates(web_ids, selected_fields, rs, fail) ==
    client_request(register_updates_request(web_ids, selected_fields), rs, fail)

\* a retrieve that, told that its marker is not valid, asks again with the
\* registration's latest marker
retrieve_updates_retry(marker, selected_fields, desired_units, rs, fail) ==
    LET r == client_request(
                 retrieve_updates_request(marker, selected_fields, desired_units),
                 rs, fail)
    IN  IF r.out.status = "InvalidState" /\ marker.reg \in 1..Len(rs)
        THEN LET r2 == client_request(
                          retrieve_updates_request(
                              Marker(marker.reg, rs[marker.reg].latest),
                              selected_fields, desired_units),
                          rs, fail)
             IN  Result(r2.out, r2.regs, 2)
        ELSE r

\* StreamSetController.retrieve_updates
retrieve_updates(marker, selected_fields, desired_units, rs, fail) ==
    client_request(retrieve_updates_request(marker, selected_fields, desired_units),
                   rs, fail)

\* ---- the consumer and the writers ----

\* resp: the operation, its arguments, what it returned or raised (out), the
\* number of requests it issued (n), and whether it repeats the call before
\* it (same marker, the call before having succeeded)
NoCall ==
    [op |-> "none", kind |-> "none", ids |-> {}, marker_in |-> NoMarker,
     out |-> Failure("none"), n |-> 0, repeat |-> FALSE]

FeedInit ==
    /\ regs = <<>>
    /\ wcount = 0
    /\ cursor = <<>>
    /\ got = <<>>
    /\ resp = NoCall

\* every marker a register or a retrieve has returned to the consumer
IssuedMarkers ==
    UNION {{Marker(r, SumLen(SubSeq(got[r], 1, i))) : i \in 0..Len(got[r])} :
             r \in 1..Len(got)}
      \cup {cursor[r] : r \in 1..Len(cursor)}

\* the consumer keeps the marker of a successful register
AfterRegister(kind, ids, r) ==
    /\ regs' = r.regs
    /\ IF r.out.status = "ok"
       THEN /\ cursor' = Append(cursor, r.out.LatestMarker)
            /\ got' = Append(got, <<>>)
       ELSE UNCHANGED <<cursor, got>>
    /\ resp' = [NoCall EXCEPT !.op = "register", !.kind = kind, !.ids = ids,
                              !.out = r.out, !.n = r.n]
    /\ UNCHANGED <<wcount, notFeedVars>>

Register ==
    /\ Len(regs) < MaxRegs
    /\ \E w \in Streams \cup {UnknownStream}, fail \in BOOLEAN :
        AfterRegister("stream", {w}, register_update(w, None, regs, fail))

RegisterSet ==
    /\ Len(regs) < MaxRegs
    /\ \E ids \in SUBSET (Streams \cup {UnknownStream}), fail \in BOOLEAN :
        AfterRegister("streamset", ids, register_updates(ids, None, regs, fail))

\* the values written to the streams of registration reg that the consumer
\* has not been given yet
Pending(reg) ==
    SubSeq(regs[reg].log, SumLen(got[reg]) + 1, Len(regs[reg].log))

\* the consumer replaces its marker by the one a successful retrieve returns
\* and keeps the batch; a failed retrieve changes nothing of the consumer
AfterRetrieve(kind, m, r) ==
    LET own == m.reg \in 1..Len(cursor)
    IN  /\ regs' = r.regs
        /\ IF r.out.status = "ok" /\ own
           THEN /\ cursor' = [cursor EXCEPT ![m.reg] = r.out.LatestMarker]
                /\ got' = IF r.out.Items # <<>>
                          THEN [got EXCEPT ![m.reg] = Append(@, r.out.Items)]
                          ELSE got
           ELSE UNCHANGED <<cursor, got>>
        /\ resp' = [op |-> "retrieve", kind |-> kind, ids |-> {},
                    marker_in |-> m, out |-> r.out, n |-> r.n,
                    repeat |-> /\ resp.op = "retrieve"
                               /\ resp.marker_in = m
                               /\ resp.kind = kind
                               /\ resp.out.status = "ok"]
        /\ UNCHANGED <<wcount, notFeedVars>>

Retrieve ==
    \E m \in IssuedMarkers \cup {BogusMarker}, fail \in BOOLEAN :
        AfterRetrieve("stream", m, retrieve_update(m, None, None, regs, fail))

RetrieveSet ==
    \E m \in IssuedMarkers \cup {BogusMarker}, fail \in BOOLEAN :
        AfterRetrieve("streamset", m, retrieve_updates(m, None, None, regs, fail))

\* a writer records a value on stream s: every registration that covers s
\* gets the change
Write ==
    /\ wcount < MaxWrites
    /\ \E s \in Streams :
        /\ wcount' = wcount + 1
        /\ regs' = [r \in 1..Len(regs) |->
                     IF s \in regs[r].streams
                     THEN [regs[r] EXCEPT !.log =
                             Append(@, [stream |-> s, value |-> wcount + 1])]
                     ELSE regs[r]]
    /\ UNCHANGED <<cursor, got, resp, notFeedVars>>

FeedNext ==
    \/ Register
    \/ RegisterSet
    \/ Retrieve
    \/ RetrieveSet
    \/ Write

(***************************************************************************)
(* Properties of the change feed.                                          *)
(***************************************************************************)

\* m is the marker the consumer holds for its registration, and the
\* registration is of the kind the endpoint serves
IsCurrent(m, kind) ==
    /\ m.reg \in 1..Len(cursor)
    /\ cursor[m.reg] = m
    /\ regs[m.reg].kind = kind

\* the changes a marker of the service covers
Covers(m) ==
    IF m.reg \in 1..Len(regs) /\ m.pos \in 0..Len(regs[m.reg].log)
    THEN Range(SubSeq(regs[m.reg].log, 1, m.pos))
    ELSE {}

\* the step is a call of the consumer (a write is the only other step)
IsCall == wcount' = wcount

\* C4: a retrieve of a single-stream registration with the consumer's current
\* marker, unless the transport fails, returns exactly the values written
\* since the marker was returned, in write order, and leaves nothing pending
\* (so the next retrieve, with the new marker, returns an empty batch unless
\* more is written); what has been delivered is always a prefix of what was
\* written, each value once.
C4_RetrieveReturnsWrites ==
    [][ /\ \A r \in 1..Len(got') :
            Flatten(got'[r]) = SubSeq(regs'[r].log, 1, SumLen(got'[r]))
        /\ ( /\ IsCall
             /\ resp'.op = "retrieve"
             /\ resp'.kind = "stream"
             /\ IsCurrent(resp'.marker_in, "stream")
             /\ resp'.out.status # "TransportFailure" )
           => /\ resp'.out.status = "ok"
              /\ resp'.out.Items = Pending(resp'.marker_in.reg)
              /\ cursor'[resp'.marker_in.reg] = resp'.out.LatestMarker
              /\ SumLen(got'[resp'.marker_in.reg])
                    = Len(regs'[resp'.marker_in.reg].log)
      ]_vars

\* two values were delivered by one retrieve, and the retrieve after it, with
\* the marker that one returned, gave an empty batch
C4_Witness ==
    /\ resp.op = "retrieve"
    /\ resp.kind = "stream"
    /\ resp.out.status = "ok"
    /\ resp.out.Items = <<>>
    /\ resp.marker_in.reg \in 1..Len(got)
    /\ Len(got[resp.marker_in.reg]) = 1
    /\ Len(got[resp.marker_in.reg][1]) = 2
    /\ resp.marker_in = Marker(resp.marker_in.reg, 2)

\* C5: a retrieve of a stream-set registration with the consumer's current
\* marker, when nothing was written since, returns (unless the transport
\* fails) an empty batch and the marker passed in, and changes nothing, so
\* that repeating it gives the same result.
C5_NoChangeRetrieve ==
    [][ ( /\ IsCall
          /\ resp'.op = "retrieve"
          /\ resp'.kind = "streamset"
          /\ IsCurrent(resp'.marker_in, "streamset")
          /\ Pending(resp'.marker_in.reg) = <<>>
          /\ resp'.out.status # "TransportFailure" )
        => /\ resp'.out.status = "ok"
           /\ resp'.out.Items = <<>>
           /\ resp'.out.LatestMarker = resp'.marker_in
           /\ cursor' = cursor
           /\ got' = got
           /\ regs' = regs
      ]_vars

\* the second of two successive retrieves with the marker of a stream-set
\* registration returned an empty batch and the same marker
C5_Witness ==
    /\ resp.op = "retrieve"
    /\ resp.kind = "streamset"
    /\ resp.repeat
    /\ resp.out.status = "ok"
    /\ resp.out.Items = <<>>
    /\ resp.out.LatestMarker = resp.marker_in
    /\ got[resp.marker_in.reg] = <<>>

\* C6 as stated: a successful retrieve with marker M returns no item that M
\* covers, and a marker M' that covers what M covers and differs from M.
C6_MarkerStrictlyAdvances ==
    (resp.op = "retrieve" /\ resp.out.status = "ok") =>
        /\ \A i \in 1..Len(resp.out.Items) :
              resp.out.Items[i] \notin Covers(resp.marker_in)
        /\ Covers(resp.marker_in) \subseteq Covers(resp.out.LatestMarker)
        /\ resp.out.LatestMarker # resp.marker_in

\* C6 as amended: a successful retrieve with marker M returns no item that M
\* covers, and a marker M' that covers what M covers and the returned items;
\* M' differs from M exactly when the batch is not empty.
C6_MarkerSubsumes ==
    (resp.op = "retrieve" /\ resp.out.status = "ok") =>
        /\ \A i \in 1..Len(resp.out.Items) :
              resp.out.Items[i] \notin Covers(resp.marker_in)
        /\ Covers(resp.out.LatestMarker) =
              Covers(resp.marker_in) \cup Range(resp.out.Items)
        /\ (resp.out.LatestMarker # resp.marker_in <=> resp.out.Items # <<>>)

\* a retrieve with a marker that covers a change returned a later change
C6_Witness ==
    /\ resp.op = "retrieve"
    /\ resp.out.status = "ok"
    /\ resp.out.Items # <<>>
    /\ Covers(resp.marker_in) # {}
    /\ resp.out.LatestMarker # resp.marker_in

\* C7: the consumer's marker of a registration always covers exactly the
\* batches returned to it and is the marker the service expects next, and a
\* retrieve that fails leaves the markers, the batches and the service's
\* registrations as they were.
C7_FailedRetrieveKeepsMarker ==
    [][ /\ \A r \in 1..Len(cursor') :
            /\ cursor'[r] = Marker(r, SumLen(got'[r]))
            /\ regs'[r].latest = cursor'[r].pos
        /\ (IsCall /\ resp'.op = "retrieve" /\ resp'.out.status # "ok")
           => (cursor' = cursor /\ got' = got /\ regs' = regs)
      ]_vars

\* a retrieve with the current marker failed in the transport while values
\* were pending, and the consumer still holds that marker
C7_Witness ==
    /\ resp.op = "retrieve"
    /\ resp.out.status = "TransportFailure"
    /\ resp.marker_in.reg \in 1..Len(cursor)
    /\ cursor[resp.marker_in.reg] = resp.marker_in
    /\ Pending(resp.marker_in.reg) # <<>>
    /\ got[resp.marker_in.reg] # <<>>

\* C8: a retrieve with a marker that is not the consumer's current marker of
\* a registration of the endpoint's kind fails with InvalidState (or in the
\* transport), returns no batch, issues one request and changes nothing.
C8_StaleMarkerRejected ==
    [][ ( /\ IsCall
          /\ resp'.op = "retrieve"
          /\ ~IsCurrent(resp'.marker_in, resp'.kind) )
        => /\ resp'.out.status \in {"InvalidState", "TransportFailure"}
           /\ resp'.out.Items = <<>>
           /\ resp'.out.LatestMarker = NoMarker
           /\ resp'.n = 1
           /\ cursor' = cursor
           /\ got' = got
           /\ regs' = regs
      ]_vars

\* a retrieve with a marker that a later retrieve had superseded was refused
C8_Witness ==
    /\ resp.op = "retrieve"
    /\ resp.out.status = "InvalidState"
    /\ resp.marker_in.reg \in 1..Len(cursor)
    /\ regs[resp.marker_in.reg].kind = resp.kind
    /\ resp.marker_in \in IssuedMarkers
    /\ resp.marker_in.pos < cursor[resp.marker_in.reg].pos

\* C9: register on a stream set, unless the transport fails, fails with
\* InvalidArgument for an empty set and with NotFound for a set that holds an
\* unknown identity; a failed register returns no marker and the service
\* holds no registration without a marker at the consumer.
C9_RegisterSetRejects ==
    /\ Len(regs) = Len(cursor)
    /\ (resp.op = "register" /\ resp.kind = "streamset"
          /\ resp.out.status # "TransportFailure") =>
        /\ resp.ids = {} => resp.out.status = "InvalidArgument"
        /\ (resp.ids # {} /\ ~(resp.ids \subseteq Streams))
              => resp.out.status = "NotFound"
        /\ resp.out.status # "ok" => resp.out.LatestMarker = NoMarker

\* register on a set of a known and an unknown identity failed with NotFound
C9_Witness ==
    /\ resp.op = "register"
    /\ resp.kind = "streamset"
    /\ resp.ids = {"s1", UnknownStream}
    /\ resp.out.status = "NotFound"
    /\ regs = <<>>

SampleRegs ==
    << [kind |-> "stream", streams |-> {"s1"},
        log |-> << [stream |-> "s1", value |-> 1] >>, latest |-> 0],
       [kind |-> "streamset", streams |-> Streams,
        log |-> << [stream |-> "s1", value |-> 1] >>, latest |-> 0] >>

\* the markers handed to the call: the current ones, stale or foreign ones
\* and one the service never issued
SampleMarkers ==
    {Marker(r, p) : r \in 1..2, p \in 0..1} \cup {BogusMarker}

\* selected_fields and desired_units as the caller may give them
FieldChoices == {None, "", "Items.Value"}

UnitChoices == {None, "", "m"}

NotSeen ==
    [called |-> FALSE,
     request |-> Request("", <<>>, Params({}, NoMarker, None, None)),
     response |-> Failure("none"),
     returned |-> Failure("none")]

RequestInit ==
    /\ rq_args \in [kind : {"stream", "streamset"}, marker : SampleMarkers,
                    selected_fields : FieldChoices,
                    desired_units : UnitChoices, fail : BOOLEAN]
    /\ rq_seen = NotSeen

RequestIdle ==
    /\ rq_args = [kind |-> "stream", marker |-> BogusMarker,
                  selected_fields |-> None, desired_units |-> None,
                  fail |-> FALSE]
    /\ rq_seen = NotSeen

\* the call: the request handed to client.get, what client.get gave back
\* for it, and what the controller method gave back
RetrieveCall ==
    /\ ~rq_seen.called
    /\ LET a   == rq_args
           req == IF a.kind = "stream"
                  THEN retrieve_update_request(a.marker, a.selected_fields,
                                               a.desired_units)
                  ELSE retrieve_updates_request(a.marker, a.selected_fields,
                                                a.desired_units)
           r   == IF a.kind = "stream"
                  THEN retrieve_update(a.marker, a.selected_fields,
                                       a.desired_units, SampleRegs, a.fail)
                  ELSE retrieve_updates(a.marker, a.selected_fields,
                                        a.desired_units, SampleRegs, a.fail)
       IN  rq_seen' = [called |-> TRUE,
                       request |-> req,
                       response |-> client_request(req, SampleRegs, a.fail).out,
                       returned |-> r.out]
    /\ UNCHANGED rq_args
    /\ UNCHANGED notRequestVars

RequestNext == RetrieveCall

\* C22: the request of a retrieve carries the caller's marker as it is, as
\* the last segment of the path (one stream) or as the query parameter
\* marker (stream set); selectedFields and desiredUnits are in the query
\* exactly when the caller gave a non-empty value, with that value; and the
\* call gives back the response of the transport as it is.
C22_RetrieveRequestShape ==
    rq_seen.called =>
        LET a == rq_args
            q == rq_seen.request
        IN  /\ q.method = "GET"
            /\ a.kind = "stream" =>
                  /\ q.path = <<Seg("streams"), Seg("updates"), MkSeg(a.marker)>>
                  /\ q.params.marker = NoMarker
            /\ a.kind = "streamset" =>
                  /\ q.path = <<Seg("streamsets"), Seg("updates")>>
                  /\ q.params.marker = a.marker
            /\ q.params.selectedFields =
                  (IF a.selected_fields \in {None, ""} THEN None
                   ELSE a.selected_fields)
            /\ q.params.desiredUnits =
                  (IF a.desired_units \in {None, ""} THEN None
                   ELSE a.desired_units)
            /\ q.params.webId = {}
            /\ rq_seen.returned = rq_seen.response

\* a stream-set retrieve with fields given and an empty unit string got the
\* batch of the service back
C22_Witness ==
    /\ rq_seen.called
    /\ rq_args.kind = "streamset"
    /\ rq_args.selected_fields = "Items.Value"
    /\ rq_args.desired_units = ""
    /\ rq_seen.returned.status = "ok"
    /\ rq_seen.returned.Items # <<>>

(***************************************************************************)
(* create_or_get_element, called by two callers for children of one        *)
(* parent element, and the element service behind client.element.          *)
(***************************************************************************)

Callers == {1, 2}

\* the names asked for; the service's name filter does not tell them apart
Names == {"Model", "model"}

Lower(n) == IF n = "Model" THEN "model" ELSE n

\* get_elements(parent_webid, name_filter=name): the WebIds of the visible
\* children whose name the filter matches, in creation order
Listing(filter) ==
    SelectSeq([i \in 1..Len(nodes) |-> i],
              LAMBDA i : nodes[i].visible /\ Lower(nodes[i].name) = Lower(filter))

LastMatch(items, name) ==
    LET hits == {i \in 1..Len(items) : nodes[items[i]].name = name}
    IN  IF hits = {} THEN 0
        ELSE items[CHOOSE i \in hits : \A j \in hits : i >= j]

\* for elem in existing.get("Items", []): if elem["Name"] == name: return elem
\* (0: the loop ends without a return)
FirstMatch(items, name) ==
    LET hits == {i \in 1..Len(items) : nodes[items[i]].name = name}
    IN  IF hits = {} THEN 0
        ELSE items[CHOOSE i \in hits : \A j \in hits : i <= j]

\* the children of the listing that carry the name
Matches(items, name) == {i \in 1..Len(items) : nodes[items[i]].name = name}

\* one call of create_or_get_element: its position, its argument, what it
\* returned or raised and what it printed; and, as history of the call, the
\* outcome of its lookup ("hit", "miss", "error"), whether a child with the
\* name was visible when it looked up, the listing its result was taken from
\* and the number of listings it asked for after its create
Idle == [pc |-> "idle", name |-> "", result |-> 0, error |-> "", calls |-> 0,
         lookup |-> "", existed |-> FALSE, items |-> <<>>, requeries |-> 0,
         printed |-> <<>>]

EnsureInit ==
    /\ nodes = <<>>
    /\ ens = [p \in Callers |-> Idle]
    /\ overlap = FALSE

InCall(p) == ens[p].pc \in {"lookup", "create", "requery"}

Returned(p, id) ==
    ens' = [ens EXCEPT ![p].pc = "returned", ![p].result = id]

Raised(p, err) ==
    ens' = [ens EXCEPT ![p].pc = "raised", ![p].error = err]

\* a caller enters create_or_get_element(parent_webid, name, ...)
Call(p) ==
    /\ ~InCall(p)
    /\ ens[p].calls < MaxCalls
    /\ \E name \in Names :
        /\ ens' = [ens EXCEPT ![p] = [Idle EXCEPT !.pc = "lookup",
                                                  !.name = name,
                                                  !.calls = ens[p].calls + 1]]
        /\ overlap' = \E q \in Callers \ {p} : InCall(q) /\ ens[q].name = name
    /\ UNCHANGED <<nodes, notEnsureVars>>

\* "Try to find existing": an element of the listing with the name is
\* returned; an error of the lookup is swallowed (except: pass) and, like a
\* listing without the name, leads to the create
Lookup(p) ==
    /\ ens[p].pc = "lookup"
    /\ \E fail \in BOOLEAN :
        LET items == Listing(ens[p].name)
            hit == FirstMatch(items, ens[p].name)
        IN  IF ~fail /\ hit # 0
            THEN ens' = [ens EXCEPT ![p].pc = "returned", ![p].result = hit,
                                    ![p].lookup = "hit", ![p].existed = TRUE,
                                    ![p].items = items,
                                    ![p].printed = <<"already exists">>]
            ELSE ens' = [ens EXCEPT ![p].pc = "create",
                                    ![p].lookup = IF fail THEN "error" ELSE "miss",
                                    ![p].existed = (hit # 0)]
    /\ UNCHANGED <<nodes, overlap, notEnsureVars>>

\* "Create new": create_element(parent_webid, element_def), then
\* time.sleep(0.5); an error of the create leaves the function
Create(p) ==
    /\ ens[p].pc = "create"
    /\ \E fail \in BOOLEAN :
        IF fail
        THEN /\ Raised(p, "PIWebAPIError")
             /\ nodes' = nodes
        ELSE /\ nodes' = Append(nodes, [name |-> ens[p].name, visible |-> FALSE])
             /\ ens' = [ens EXCEPT ![p].pc = "requery"]
    /\ UNCHANGED <<overlap, notEnsureVars>>

RequeryRetry(p) ==
    /\ ens[p].pc = "requery"
    /\ \E fail \in BOOLEAN :
        LET items == Listing(ens[p].name)
            hit == FirstMatch(items, ens[p].name)
            n == ens[p].requeries + 1
        IN  IF fail
            THEN ens' = [ens EXCEPT ![p].pc = "raised", ![p].requeries = n,
                                    ![p].error = "PIWebAPIError"]
            ELSE IF hit # 0
            THEN ens' = [ens EXCEPT ![p].pc = "returned", ![p].requeries = n,
                                    ![p].result = hit, ![p].items = items,
                                    ![p].printed = <<"Created">>]
            ELSE IF n < 2
            THEN ens' = [ens EXCEPT ![p].requeries = n]
            ELSE ens' = [ens EXCEPT ![p].pc = "raised", ![p].requeries = n,
                                    ![p].items = items,
                                    ![p].error = "Failed to create"]
    /\ UNCHANGED <<nodes, overlap, notEnsureVars>>

\* "Retrieve": one more listing; the element with the name is returned, and
\* without one the function raises Exception("Failed to create ...")
Requery(p) ==
    /\ ens[p].pc = "requery"
    /\ \E fail \in BOOLEAN :
        LET items == Listing(ens[p].name)
            hit == FirstMatch(items, ens[p].name)
            n == ens[p].requeries + 1
        IN  IF fail
            THEN ens' = [ens EXCEPT ![p].pc = "raised", ![p].requeries = n,
                                    ![p].error = "PIWebAPIError"]
            ELSE IF hit # 0
            THEN ens' = [ens EXCEPT ![p].pc = "returned", ![p].requeries = n,
                                    ![p].result = hit, ![p].items = items,
                                    ![p].printed = <<"Created">>]
            ELSE ens' = [ens EXCEPT ![p].pc = "raised", ![p].requeries = n,
                                    ![p].items = items,
                                    ![p].error = "Failed to create"]
    /\ UNCHANGED <<nodes, overlap, notEnsureVars>>

\* a created element becomes visible to listings
MakeVisible ==
    /\ \E i \in 1..Len(nodes) :
        /\ ~nodes[i].visible
        /\ nodes' = [nodes EXCEPT ![i].visible = TRUE]
    /\ UNCHANGED <<ens, overlap, notEnsureVars>>

EnsureNext ==
    \/ \E p \in Callers : Call(p)
    \/ \E p \in Callers : Lookup(p)
    \/ \E p \in Callers : Create(p)
    \/ \E p \in Callers : Requery(p)
    \/ MakeVisible

(***************************************************************************)
(* Properties of create_or_get_element.                                    *)
(***************************************************************************)

\* C10: when the two callers ran create_or_get_element concurrently with the
\* same name and both returned an element, they returned the same element.
C10_ConcurrentCallersSameAnchor ==
    (overlap /\ \A p \in Callers : ens[p].pc = "returned") =>
        \A p, q \in Callers : ens[p].result = ens[q].result

C12_NoCreateWhenChildExists ==
    \A p \in Callers :
        ens[p].existed => (ens[p].pc = "returned" /\ ens[p].lookup = "hit")

\* C24: a call whose lookup failed with an error has issued no create: it
\* has no created element to look for and has asked for no listing after a
\* create.
C24_NoCreateAfterFailedLookup ==
    \A p \in Callers :
        ens[p].lookup = "error" =>
            (ens[p].pc # "requery" /\ ens[p].requeries = 0)

C15_DeclaredBeforeUse ==
    \A i \in 1..Len(omf_msgs) :
        /\ omf_msgs[i].kind = "container" =>
              \E j \in 1..(i - 1) :
                  /\ omf_msgs[j].kind = "type"
                  /\ omf_msgs[j].ok
                  /\ omf_msgs[j].id = omf_msgs[i].type_id
        /\ omf_msgs[i].kind = "data" =>
              \E j \in 1..(i - 1) :
                  /\ omf_msgs[j].kind = "container"
                  /\ omf_msgs[j].ok
                  /\ omf_msgs[j].id = omf_msgs[i].container

\* a run that declared its type and all its containers has sent data
C15_Witness ==
    /\ Len(container_ids) = Len(containers_def)
    /\ \E i \in 1..Len(omf_msgs) : omf_msgs[i].kind = "data"

\* the least number of chunks of at most bs records that hold n records
Ceil(n, bs) == CHOOSE k \in 0..n : k * bs >= n /\ (k = 0 \/ (k - 1) * bs < n)

\* C25: total_batches is the ceiling of len(values) / batch_size; a container
\* whose loop ran to its end without a failure was sent exactly that many
\* chunks, the last of them with batch number total_batches, which its
\* progress line names; with no records no chunk is sent and the container
\* is counted as completed.
C25_TotalBatchesIsCeiling ==
    LET tb == TotalBatches(num_points, batch_size)
    IN  /\ tb = Ceil(num_points, batch_size)
        /\ \A c \in Range(containers_def) :
              LET ms == MsgsOf(c)
                  pl == LinesOf(c, "batch_complete")
              IN  /\ Len(ms) <= tb
                  /\ LinesOf(c, "completed") # <<>> =>
                        /\ Len(ms) = tb
                        /\ num_points > 0 =>
                              /\ BatchNum(ms[Len(ms)].idx, batch_size) = tb
                              /\ pl # <<>>
                              /\ pl[Len(pl)].batch_num = tb
                              /\ pl[Len(pl)].total = tb
                  /\ (num_points = 0 /\ Finished(c)) =>
                        /\ ms = <<>>
                        /\ LinesOf(c, "completed") # <<>>
                        /\ LinesOf(c, "failed") = <<>>

\* 5 records with batch_size 3: a container was sent 2 chunks, the last one
\* with batch number 2
C25_Witness ==
    /\ num_points = 5
    /\ batch_size = 3
    /\ \E c \in Range(containers_def) :
        /\ LinesOf(c, "completed") # <<>>
        /\ Len(MsgsOf(c)) = 2
        /\ ChunkSizes(c) = <<3, 2>>

\* the containers whose batch loop has ended, by outcome
CompletedContainers ==
    {c \in Range(containers_def) : LinesOf(c, "completed") # <<>>}

FailedContainers ==
    {c \in Range(containers_def) : LinesOf(c, "failed") # <<>>}

\* C26: no container is both completed and failed; a completed container
\* had all its records delivered and a failed one has exactly one failed
\* chunk; successful_writes and failed_writes count the completed and the
\* failed containers, so their sum is the number of containers processed so
\* far, and at the end of the run the number of declared containers, each of
\* which is completed or failed.
C26_ExactlyOneOutcome ==
    /\ CompletedContainers \cap FailedContainers = {}
    /\ \A c \in CompletedContainers :
          /\ Len(LinesOf(c, "completed")) = 1
          /\ FailedChunks(c) = {}
          /\ Flatten(DeliveredOf(c)) = Values(num_points)
    /\ \A c \in FailedContainers :
          /\ Len(LinesOf(c, "failed")) = 1
          /\ Cardinality(FailedChunks(c)) = 1
    /\ successful_writes = Cardinality(CompletedContainers)
    /\ failed_writes = Cardinality(FailedContainers)
    /\ uc2_pc = "send" => successful_writes + failed_writes = cur - 1
    /\ uc2_pc \in {"summary", "done"} =>
          /\ successful_writes + failed_writes = Len(container_ids)
          /\ CompletedContainers \cup FailedContainers = Range(container_ids)

\* the run has ended with one container completed and one failed
C26_Witness ==
    /\ uc2_pc = "done"
    /\ successful_writes = 1
    /\ failed_writes = 1
    /\ Len(container_ids) = 2

\* the declarations (of the type, of a container) that were answered with
\* an error
FailedDecls ==
    {i \in 1..Len(omf_msgs) :
        omf_msgs[i].kind \in {"type", "container"} /\ ~omf_msgs[i].ok}

\* C23: a declaration that failed is the last message of the run, and the
\* run has left through its error exit: no declaration and no data message
\* follows it, and no data message was sent before it.
C23_DeclarationFailureStopsRun ==
    \A i \in FailedDecls :
        /\ i = Len(omf_msgs)
        /\ uc2_pc = "exit"
        /\ \A j \in 1..Len(omf_msgs) : omf_msgs[j].kind # "data"

\* the declaration of the second container failed after the first one was
\* accepted, in a run that had records to send
C23_Witness ==
    /\ uc2_pc = "exit"
    /\ num_points > 0
    /\ Len(container_ids) = 1
    /\ FailedDecls = {Len(omf_msgs)}
    /\ omf_msgs[Len(omf_msgs)].kind = "container"

\* the data messages that the transport answered with an error
FailedMsgs ==
    {i \in 1..Len(omf_msgs) :
        omf_msgs[i].kind = "data" /\ omf_msgs[i].result # "ok"}

\* C20: a failed chunk never takes the run to its error exit; at the end of
\* the run every container has been taken through its batch loop, every
\* container without a failed chunk has had all its records sent, each failed
\* chunk has its error line, and the summary line counts every container.
C20_FailureStaysInsideRun ==
    /\ FailedMsgs # {} => uc2_pc # "exit"
    /\ \A i \in FailedMsgs :
          LinesOf(omf_msgs[i].container, "error") # <<>>
    /\ uc2_pc = "done" =>
          /\ \A c \in Range(container_ids) :
                /\ Finished(c)
                /\ FailedChunks(c) = {} =>
                      Flatten(ChunksOf(c)) = Values(num_points)
          /\ out_log[Len(out_log)].kind = "summary"
          /\ out_log[Len(out_log)].successful + out_log[Len(out_log)].failed
                = Len(container_ids)

\* the run has ended: a chunk of the first container failed, and the second
\* container had all its records sent afterwards
C20_Witness ==
    /\ uc2_pc = "done"
    /\ Len(container_ids) >= 2
    /\ num_points > 0
    /\ FailedChunks(container_ids[1]) # {}
    /\ FailedChunks(container_ids[2]) = {}
    /\ Flatten(ChunksOf(container_ids[2])) = Values(num_points)

(***************************************************************************)
(* The type declarations of the two use cases (omf_manager.create_type)    *)
(* and the registry of types that answers them.                            *)
(***************************************************************************)

\* the values of int(time.time()) that name the types of a run
Timestamps == {1, 2}

\* OMFType.create_static_type(id=f"AFMetadata_{timestamp}", ...)
meta_type(timestamp) ==
    [id |-> <<"AFMetadata", timestamp>>,
     classification |-> "static",
     properties |-> {<<"af_webid", "string">>, <<"af_path", "string">>}]

\* OMFType.create_dynamic_type(id=f"IndyIQ_SensorDataType_{timestamp}", ...)
sensor_data_type(timestamp) ==
    [id |-> <<"IndyIQ_SensorDataType", timestamp>>,
     classification |-> "dynamic",
     properties |-> {<<"timestamp", "date-time">>, <<"value", "number">>}]

\* a definition under the identifier of d with one more property
Extended(d) ==
    [d EXCEPT !.properties = @ \cup {<<"quality", "string">>}]

\* the definitions handed to create_type
TypeDefs ==
    LET made == {meta_type(t) : t \in Timestamps}
                    \cup {sensor_data_type(t) : t \in Timestamps}
    IN  made \cup {Extended(d) : d \in made}

TypeIds == {d.id : d \in TypeDefs}

NoType == [id |-> <<"", 0>>, classification |-> "", properties |-> {}]

\* a registry that lets a differing definition replace the registered one
declare_type_overwrite(reg, definition) ==
    IF reg[definition.id] = definition
    THEN [out |-> "Acknowledged", reg |-> reg]
    ELSE [out |-> IF reg[definition.id] = NoType THEN "Acknowledged"
                  ELSE "Conflict",
          reg |-> [reg EXCEPT ![definition.id] = definition]]

\* declare_type(definition) -> Acknowledged | Conflict
declare_type(reg, definition) ==
    IF reg[definition.id] = NoType
    THEN [out |-> "Acknowledged",
          reg |-> [reg EXCEPT ![definition.id] = definition]]
    ELSE IF reg[definition.id] = definition
    THEN [out |-> "Acknowledged", reg |-> reg]
    ELSE [out |-> "Conflict", reg |-> reg]

NoDecl == [definition |-> NoType, out |-> "", before |-> NoType]

RegistryInit ==
    /\ registry = [i \in TypeIds |-> NoType]
    /\ decl = NoDecl

\* omf_manager.create_type(definition)
DeclareType ==
    /\ \E definition \in TypeDefs :
        LET r == declare_type(registry, definition)
        IN  /\ registry' = r.reg
            /\ decl' = [definition |-> definition, out |-> r.out,
                        before |-> registry[definition.id]]
    /\ UNCHANGED notRegistryVars

RegistryNext == DeclareType

\* C14: a declaration under an identifier that is already registered is
\* answered Acknowledged when its definition equals the registered one and
\* Conflict when it differs, and in both cases the registered definition is
\* afterwards the one registered before.
C14_RedeclareAcknowledgedOrConflict ==
    decl.before # NoType =>
        /\ decl.definition = decl.before => decl.out = "Acknowledged"
        /\ decl.definition # decl.before => decl.out = "Conflict"
        /\ registry[decl.definition.id] = decl.before

\* the sensor data type of a run was declared again with one more property
\* and answered Conflict
C14_Witness ==
    /\ decl.out = "Conflict"
    /\ decl.before = sensor_data_type(1)
    /\ decl.definition = Extended(sensor_data_type(1))
    /\ registry[decl.definition.id] = sensor_data_type(1)

(***************************************************************************)
(* BaseController._format_time.  A string is the sequence of its           *)
(* characters; a datetime is the record of its fields, its tzinfo either   *)
(* absent (naive) or a fixed offset from UTC in minutes.                   *)
(***************************************************************************)

Digits == <<"0", "1", "2", "3", "4", "5", "6", "7", "8", "9">>

IsDigit(c) == c \in Range(Digits)

DigitVal(c) == CHOOSE d \in 0..9 : Digits[d + 1] = c

\* "%0<w>d" % n
RECURSIVE Pad(_, _)
Pad(n, w) == IF w = 0 THEN <<>> ELSE Pad(n \div 10, w - 1) \o <<Digits[(n % 10) + 1]>>

Abs(n) == IF n < 0 THEN -n ELSE n

NoTz == [aware |-> FALSE, minutes |-> 0]

Tz(m) == [aware |-> TRUE, minutes |-> m]

NoDatetime ==
    [year |-> 0, month |-> 0, day |-> 0, hour |-> 0, minute |-> 0,
     second |-> 0, microsecond |-> 0, tzinfo |-> NoTz]

\* the datetime objects handed to _format_time
Datetimes ==
    [year : {1, 1999, 2024}, month : {1, 12}, day : {1, 31},
     hour : {0, 23}, minute : {0, 59}, second : {0, 59},
     microsecond : {0, 5, 123456},
     tzinfo : {NoTz, Tz(0), Tz(60), Tz(330), Tz(-480), Tz(-30)}]

\* the strings handed to _format_time
Strings ==
    { <<>>,
      <<"*">>,
      <<"*", "-", "1", "d">>,
      <<"T", "o", "d", "a", "y">>,
      <<" ", "*", " ">>,
      <<"2", "0", "2", "4", "-", "0", "1", "-", "0", "1">> }

\* the types of the other arguments handed to _format_time
OtherTypes == {"int", "float", "bool", "bytes", "list", "date"}

NoneValue == [type |-> "NoneType", chars |-> <<>>, dt |-> NoDatetime]

Str(chars) == [type |-> "str", chars |-> chars, dt |-> NoDatetime]

DatetimeValue(dt) == [type |-> "datetime", chars |-> <<>>, dt |-> dt]

OtherValue(t) == [type |-> t, chars |-> <<>>, dt |-> NoDatetime]

TimeValues ==
    {NoneValue} \cup {Str(c) : c \in Strings}
        \cup {DatetimeValue(dt) : dt \in Datetimes}
        \cup {OtherValue(t) : t \in OtherTypes}

\* an isoformat that writes the microseconds without their leading zeros
isoformat_short_fraction(dt) ==
    LET RECURSIVE Dec(_)
        Dec(n) == IF n < 10 THEN <<Digits[n + 1]>>
                  ELSE Dec(n \div 10) \o <<Digits[(n % 10) + 1]>>
        off == dt.tzinfo.minutes
    IN  Pad(dt.year, 4) \o <<"-">> \o Pad(dt.month, 2) \o <<"-">>
            \o Pad(dt.day, 2) \o <<"T">> \o Pad(dt.hour, 2) \o <<":">>
            \o Pad(dt.minute, 2) \o <<":">> \o Pad(dt.second, 2)
            \o (IF dt.microsecond # 0
                THEN <<".">> \o Dec(dt.microsecond) ELSE <<>>)
            \o (IF dt.tzinfo.aware
                THEN <<IF off < 0 THEN "-" ELSE "+">>
                        \o Pad(Abs(off) \div 60, 2) \o <<":">>
                        \o Pad(Abs(off) % 60, 2)
                ELSE <<>>)

\* datetime.isoformat(): YYYY-MM-DDTHH:MM:SS, then .ffffff when microsecond
\* is not 0, then +HH:MM or -HH:MM when utcoffset() is not None
isoformat(dt) ==
    LET off == dt.tzinfo.minutes
    IN  Pad(dt.year, 4) \o <<"-">> \o Pad(dt.month, 2) \o <<"-">>
            \o Pad(dt.day, 2) \o <<"T">> \o Pad(dt.hour, 2) \o <<":">>
            \o Pad(dt.minute, 2) \o <<":">> \o Pad(dt.second, 2)
            \o (IF dt.microsecond # 0
                THEN <<".">> \o Pad(dt.microsecond, 6) ELSE <<>>)
            \o (IF dt.tzinfo.aware
                THEN <<IF off < 0 THEN "-" ELSE "+">>
                        \o Pad(Abs(off) \div 60, 2) \o <<":">>
                        \o Pad(Abs(off) % 60, 2)
                ELSE <<>>)

\* what a call gives back: the returned value (None or a str), or the
\* TypeError with the type its message names
ReturnNone == [outcome |-> "return", type |-> "NoneType", chars |-> <<>>]

ReturnStr(chars) == [outcome |-> "return", type |-> "str", chars |-> chars]

RaiseTypeError(t) == [outcome |-> "TypeError", type |-> t, chars |-> <<>>]

NotCalled == [outcome |-> "", type |-> "", chars |-> <<>>]

\* a variant that takes an empty string for no time at all
format_time_falsy(v) ==
    IF v.type = "NoneType" \/ (v.type = "str" /\ v.chars = <<>>) THEN ReturnNone
    ELSE IF v.type = "str" THEN ReturnStr(v.chars)
    ELSE IF v.type = "datetime" THEN ReturnStr(isoformat(v.dt))
    ELSE RaiseTypeError(v.type)

\* a variant that returns the name of the type for any other argument
format_time_lenient(v) ==
    IF v.type = "NoneType" THEN ReturnNone
    ELSE IF v.type = "str" THEN ReturnStr(v.chars)
    ELSE IF v.type = "datetime" THEN ReturnStr(isoformat(v.dt))
    ELSE ReturnStr(<<v.type>>)

\* _format_time(self, time_value)
format_time(v) ==
    IF v.type = "NoneType" THEN ReturnNone
    ELSE IF v.type = "str" THEN ReturnStr(v.chars)
    ELSE IF v.type = "datetime" THEN ReturnStr(isoformat(v.dt))
    ELSE RaiseTypeError(v.type)

CodecInit ==
    /\ time_value \in TimeValues
    /\ formatted = NotCalled

CodecIdle == CodecInit /\ time_value = NoneValue

FormatTime ==
    /\ formatted = NotCalled
    /\ formatted' = format_time(time_value)
    /\ UNCHANGED time_value
    /\ UNCHANGED notCodecVars

CodecNext == FormatTime

(***************************************************************************)
(* A reference reader of ISO 8601 date-times, and the properties of        *)
(* _format_time.                                                           *)
(***************************************************************************)

RECURSIVE ParseInt(_)
ParseInt(cs) ==
    IF cs = <<>> THEN 0
    ELSE ParseInt(SubSeq(cs, 1, Len(cs) - 1)) * 10 + DigitVal(cs[Len(cs)])

AllDigits(cs) == \A i \in 1..Len(cs) : IsDigit(cs[i])

\* the number of digits at the head of cs
RECURSIVE DigitRun(_)
DigitRun(cs) ==
    IF cs # <<>> /\ IsDigit(Head(cs)) THEN 1 + DigitRun(Tail(cs)) ELSE 0

RECURSIVE Pow10(_)
Pow10(k) == IF k = 0 THEN 1 ELSE 10 * Pow10(k - 1)

\* the zone designator: nothing, Z, or +hh:mm / -hh:mm
ParseZone(cs) ==
    IF cs = <<>> THEN [ok |-> TRUE, tzinfo |-> NoTz]
    ELSE IF cs = <<"Z">> THEN [ok |-> TRUE, tzinfo |-> Tz(0)]
    ELSE IF /\ Len(cs) = 6
            /\ cs[1] \in {"+", "-"}
            /\ AllDigits(SubSeq(cs, 2, 3))
            /\ cs[4] = ":"
            /\ AllDigits(SubSeq(cs, 5, 6))
         THEN LET m == ParseInt(SubSeq(cs, 2, 3)) * 60 + ParseInt(SubSeq(cs, 5, 6))
              IN  [ok |-> TRUE, tzinfo |-> Tz(IF cs[1] = "-" THEN -m ELSE m)]
    ELSE [ok |-> FALSE, tzinfo |-> NoTz]

\* YYYY-MM-DDThh:mm:ss[.f...][zone]
ParseIso(cs) ==
    IF ~ /\ Len(cs) >= 19
         /\ AllDigits(SubSeq(cs, 1, 4)) /\ cs[5] = "-"
         /\ AllDigits(SubSeq(cs, 6, 7)) /\ cs[8] = "-"
         /\ AllDigits(SubSeq(cs, 9, 10)) /\ cs[11] = "T"
         /\ AllDigits(SubSeq(cs, 12, 13)) /\ cs[14] = ":"
         /\ AllDigits(SubSeq(cs, 15, 16)) /\ cs[17] = ":"
         /\ AllDigits(SubSeq(cs, 18, 19))
    THEN [ok |-> FALSE, dt |-> NoDatetime]
    ELSE
        LET rest == SubSeq(cs, 20, Len(cs))
            frac == rest # <<>> /\ rest[1] = "."
            k    == IF frac THEN DigitRun(Tail(rest)) ELSE 0
            us   == IF frac /\ k \in 1..6
                    THEN ParseInt(SubSeq(rest, 2, k + 1)) * Pow10(6 - k)
                    ELSE 0
            zone == ParseZone(IF frac THEN SubSeq(rest, k + 2, Len(rest))
                              ELSE rest)
        IN  [ok |-> zone.ok /\ (frac => k \in 1..6),
             dt |-> [year |-> ParseInt(SubSeq(cs, 1, 4)),
                     month |-> ParseInt(SubSeq(cs, 6, 7)),
                     day |-> ParseInt(SubSeq(cs, 9, 10)),
                     hour |-> ParseInt(SubSeq(cs, 12, 13)),
                     minute |-> ParseInt(SubSeq(cs, 15, 16)),
                     second |-> ParseInt(SubSeq(cs, 18, 19)),
                     microsecond |-> us,
                     tzinfo |-> zone.tzinfo]]

\* days from 1970-01-01 to the date y-m-d of the proleptic Gregorian calendar
DaysFromCivil(y, m, d) ==
    LET yy  == IF m <= 2 THEN y - 1 ELSE y
        era == yy \div 400
        yoe == yy - era * 400
        mp  == IF m > 2 THEN m - 3 ELSE m + 9
        doy == ((153 * mp + 2) \div 5) + d - 1
        doe == yoe * 365 + (yoe \div 4) - (yoe \div 100) + doy
    IN  era * 146097 + doe - 719468

\* the instant of a datetime with an offset: day, second of the day and
\* microsecond in UTC
Instant(dt) ==
    LET secs == dt.hour * 3600 + dt.minute * 60 + dt.second
                    - dt.tzinfo.minutes * 60
    IN  <<DaysFromCivil(dt.year, dt.month, dt.day) + (secs \div 86400),
          secs % 86400, dt.microsecond>>

Called == formatted # NotCalled

\* C16: a str argument, the empty string and "*" included, comes back as the
\* same string, and None comes back as None.
C16_StringsPassThrough ==
    Called =>
        /\ time_value.type = "str" => formatted = ReturnStr(time_value.chars)
        /\ time_value.type = "NoneType" => formatted = ReturnNone

\* the empty string came back as the empty string
C16_Witness ==
    /\ time_value = Str(<<>>)
    /\ formatted = ReturnStr(<<>>)

\* C17: the string returned for a datetime ends with a zone offset, and for
\* a datetime that has an offset it is that offset.
C17_CarriesOffset ==
    (Called /\ time_value.type = "datetime") =>
        LET p == ParseIso(formatted.chars)
        IN  /\ formatted.outcome = "return"
            /\ p.ok
            /\ p.dt.tzinfo.aware
            /\ time_value.dt.tzinfo.aware => p.dt.tzinfo = time_value.dt.tzinfo

\* C18: a call with an argument that is not None, a str or a datetime raises
\* TypeError, whose message names the type of the argument; it returns
\* nothing and leaves everything but its own outcome as it was.
C18_OtherTypesRaise ==
    [][(time_value.type \in OtherTypes /\ ~Called /\ Called')
          => /\ formatted' = RaiseTypeError(time_value.type)
             /\ UNCHANGED <<time_value, notCodecVars>>]_vars

\* a date (not a datetime) was handed in and TypeError raised
C18_Witness ==
    /\ time_value = OtherValue("date")
    /\ formatted.outcome = "TypeError"
    /\ formatted.type = "date"

FieldType ==
    [acknowledge_date |-> "str", acknowledged_by |-> "str",
     are_values_captured |-> "bool", can_be_acknowledged |-> "bool",
     category_names |-> "list", end_time |-> "str", has_children |-> "bool",
     is_acknowledged |-> "bool", is_annotation |-> "bool",
     is_locked |-> "bool", referenced_element_web_id |-> "str",
     security_descriptor |-> "str", severity |-> "str", start_time |-> "str",
     template_name |-> "str"]

Fields == DOMAIN FieldType

\* the key under which to_dict stores each field
ToKey ==
    [acknowledge_date |-> "AcknowledgeDate", acknowledged_by |-> "AcknowledgedBy",
     are_values_captured |-> "AreValuesCaptured",
     can_be_acknowledged |-> "CanBeAcknowledged",
     category_names |-> "CategoryNames", end_time |-> "EndTime",
     has_children |-> "HasChildren", is_acknowledged |-> "IsAcknowledged",
     is_annotation |-> "IsAnnotation", is_locked |-> "IsLocked",
     referenced_element_web_id |-> "ReferencedElementWebId",
     security_descriptor |-> "SecurityDescriptor", severity |-> "Severity",
     start_time |-> "StartTime", template_name |-> "TemplateName"]

\* the key from which from_dict reads each field
FromKey ==
    [acknowledge_date |-> "AcknowledgeDate", acknowledged_by |-> "AcknowledgedBy",
     are_values_captured |-> "AreValuesCaptured",
     can_be_acknowledged |-> "CanBeAcknowledged",
     category_names |-> "CategoryNames", end_time |-> "EndTime",
     has_children |-> "HasChildren", is_acknowledged |-> "IsAcknowledged",
     is_annotation |-> "IsAnnotation", is_locked |-> "IsLocked",
     referenced_element_web_id |-> "ReferencedElementWebId",
     security_descriptor |-> "SecurityDescriptor", severity |-> "Severity",
     start_time |-> "StartTime", template_name |-> "TemplateName"]

\* values of a field: None, a value that Python takes for false, and one it
\* takes for true
Falsy(t) == IF t = "str" THEN "''" ELSE IF t = "bool" THEN "False" ELSE "[]"

Truish(t) == IF t = "str" THEN "'x'" ELSE IF t = "bool" THEN "True" ELSE "['a']"

Val(shape, t) ==
    IF shape = "none" THEN None
    ELSE IF shape = "falsy" THEN Falsy(t) ELSE Truish(t)

Shapes == {"none", "falsy", "truish"}

\* the event frames: every field of one shape, but for up to two fields
\* that have shapes of their own
EventFrames ==
    {[f \in Fields |-> IF f = a THEN Val(sa, FieldType[f])
                       ELSE IF f = b THEN Val(sb, FieldType[f])
                       ELSE Val(rest, FieldType[f])] :
        a \in Fields, b \in Fields, sa \in Shapes, sb \in Shapes,
        rest \in Shapes}

EmptyDict == [k \in {} |-> None]

\* what super().to_dict(exclude_none) returns for the inherited fields
BaseDicts ==
    {EmptyDict,
     [WebId |-> "'F1'", Name |-> "'Batch 7'"],
     [WebId |-> "'F1'", Id |-> None, Name |-> "'Batch 7'",
      Description |-> None, Path |-> None, Links |-> None]}

\* a to_dict that leaves out every field that Python takes for false
to_dict_truthy(e, excl, base) ==
    LET emitted == {f \in Fields :
                       (e[f] # None /\ e[f] # Falsy(FieldType[f])) \/ ~excl}
        keys == {ToKey[f] : f \in emitted}
    IN  [k \in (DOMAIN base) \cup keys |->
            IF k \in keys THEN e[CHOOSE f \in emitted : ToKey[f] = k]
            ELSE base[k]]

\* EventFrame.to_dict(self, exclude_none): result = super().to_dict(...), then
\* "if self.<field> is not None or not exclude_none: result[<Key>] = ..."
to_dict(e, excl, base) ==
    LET emitted == {f \in Fields : e[f] # None \/ ~excl}
        keys == {ToKey[f] : f \in emitted}
    IN  [k \in (DOMAIN base) \cup keys |->
            IF k \in keys THEN e[CHOOSE f \in emitted : ToKey[f] = k]
            ELSE base[k]]

\* data.get(key)
Get(data, key) == IF key \in DOMAIN data THEN data[key] ELSE None

\* EventFrame.from_dict(data): <field>=data.get(<Key>) for the 15 fields
from_dict(data) == [f \in Fields |-> Get(data, FromKey[f])]

NoFrame == [f \in Fields |-> None]

EventInit ==
    /\ ef_pc = "new"
    /\ ef \in EventFrames
    /\ exclude_none \in BOOLEAN
    /\ ef_dict = EmptyDict
    /\ ef_back = NoFrame

EventIdle == EventInit /\ ef = NoFrame /\ exclude_none = TRUE

ToDict ==
    /\ ef_pc = "new"
    /\ \E base \in BaseDicts : ef_dict' = to_dict(ef, exclude_none, base)
    /\ ef_pc' = "dumped"
    /\ UNCHANGED <<ef, exclude_none, ef_back>>
    /\ UNCHANGED notEventVars

FromDict ==
    /\ ef_pc = "dumped"
    /\ ef_back' = from_dict(ef_dict)
    /\ ef_pc' = "loaded"
    /\ UNCHANGED <<ef, exclude_none, ef_dict>>
    /\ UNCHANGED notEventVars

EventNext ==
    \/ ToDict
    \/ FromDict

EventKeys ==
    {"AcknowledgeDate", "AcknowledgedBy", "AreValuesCaptured",
     "CanBeAcknowledged", "CategoryNames", "EndTime", "HasChildren",
     "IsAcknowledged", "IsAnnotation", "IsLocked", "ReferencedElementWebId",
     "SecurityDescriptor", "Severity", "StartTime", "TemplateName"}

\* C27: from_dict(e.to_dict()) has the 15 fields of e; with exclude_none the
\* dict has the key of a field exactly when the field is not None, without
\* it the dict has all 15 keys; a key that is there carries the field's
\* value.
C27_EventFrameRoundTrip ==
    /\ ef_pc = "loaded" => ef_back = ef
    /\ ef_pc \in {"dumped", "loaded"} =>
          /\ Cardinality(EventKeys) = 15
          /\ {ToKey[f] : f \in Fields} = EventKeys
          /\ \A f \in Fields :
                /\ exclude_none =>
                      (ToKey[f] \in DOMAIN ef_dict <=> ef[f] # None)
                /\ ~exclude_none => ToKey[f] \in DOMAIN ef_dict
                /\ ToKey[f] \in DOMAIN ef_dict => ef_dict[ToKey[f]] = ef[f]

\* an event frame with is_locked False, an empty severity and no end_time
\* went through to_dict(exclude_none=True) and from_dict
C27_Witness ==
    /\ ef_pc = "loaded"
    /\ exclude_none
    /\ ef.is_locked = "False"
    /\ ef.severity = "''"
    /\ ef.end_time = None
    /\ "IsLocked" \in DOMAIN ef_dict
    /\ "EndTime" \notin DOMAIN ef_dict
    /\ ef_back = ef

(***************************************************************************)
(* The specifications: one per component, the other components at rest.    *)
(***************************************************************************)

SendIdle == SendInit /\ num_points = 0 /\ batch_size = 1

InitSend == SendInit /\ FeedInit /\ EnsureInit /\ RegistryInit /\ CodecIdle
    /\ RequestIdle /\ EventIdle

SpecSend == InitSend /\ [][SendNext]_vars

InitFeed == FeedInit /\ SendIdle /\ EnsureInit /\ RegistryInit /\ CodecIdle
    /\ RequestIdle /\ EventIdle

SpecFeed == InitFeed /\ [][FeedNext]_vars

InitEnsure == EnsureInit /\ SendIdle /\ FeedInit /\ RegistryInit /\ CodecIdle
    /\ RequestIdle /\ EventIdle

SpecEnsure == InitEnsure /\ [][EnsureNext]_vars

InitRegistry == RegistryInit /\ SendIdle /\ FeedInit /\ EnsureInit /\ CodecIdle
    /\ RequestIdle /\ EventIdle

SpecRegistry == InitRegistry /\ [][RegistryNext]_vars

InitCodec ==
    CodecInit /\ SendIdle /\ FeedInit /\ EnsureInit /\ RegistryInit
        /\ RequestIdle /\ EventIdle

SpecCodec == InitCodec /\ [][CodecNext]_vars

InitRequest ==
    RequestInit /\ SendIdle /\ FeedInit /\ EnsureInit /\ RegistryInit
        /\ CodecIdle /\ EventIdle

SpecRequest == InitRequest /\ [][RequestNext]_vars

InitEvent ==
    EventInit /\ SendIdle /\ FeedInit /\ EnsureInit /\ RegistryInit
        /\ CodecIdle /\ RequestIdle

SpecEvent == InitEvent /\ [][EventNext]_vars

====
